---- MODULE Spec2Model ----
(***************************************************************************)
(* Model of the sales cleaning-and-reporting pipeline of analisis.py and   *)
(* graficos.py.                                                            *)
(*                                                                         *)
(* A dataset (pandas DataFrame) is a record [cols, rows]: the set of its   *)
(* column names and the sequence of its rows, each row [idx, v]: its index *)
(* label (the position it was loaded at) and a function v from cols to     *)
(* cells.  A cell is [t, n, s]: t = "num" (number n), "str" (text s, a     *)
(* sequence of characters), "date" (timestamp n = yyyymmdd) or "nan" (the  *)
(* missing marker NaN / NaT).  Numbers are integers and arithmetic is      *)
(* exact: floating-point rounding and infinite inputs are outside the      *)
(* model.                                                                  *)
(***************************************************************************)
EXTENDS Integers, Sequences, FiniteSets, TLC

VARIABLES pc, fileExists, raw, df, df2, saved, n, tops, abc, artifacts, logs, err

vars == <<pc, fileExists, raw, df, df2, saved, n, tops, abc, artifacts, logs, err>>

(* ---------------------------- bounds ----------------------------------- *)
MaxRows == 2

MaxAggRows == 3

MaxN == 2

MaxRunRows == 5

(* ---------------------------- config ----------------------------------- *)
TOP_N == 10

COL_PRODUCT == "PRODUCTCODE"

COL_LINE == "PRODUCTLINE"

COL_QTY == "QUANTITYORDERED"

COL_PRICE == "PRICEEACH"

COL_SALES == "SALES"

COL_ORDERDATE == "ORDERDATE"

COL_TERRITORY == "TERRITORY"

COL_MONTH_ID == "MONTH_ID"

(* ---------------------------- cells ------------------------------------ *)
NaN == [t |-> "nan", n |-> 0, s |-> <<>>]

Num(x) == [t |-> "num", n |-> x, s |-> <<>>]

Str(x) == [t |-> "str", n |-> 0, s |-> x]

Date(x) == [t |-> "date", n |-> x, s |-> <<>>]

isna(c) == c.t = "nan"

Digits == <<"0", "1", "2", "3", "4", "5", "6", "7", "8", "9">>

DigitSet == {Digits[i] : i \in 1..10}

DigitVal(ch) == (CHOOSE i \in 1..10 : Digits[i] = ch) - 1

RECURSIVE NatToStr(_)
NatToStr(x) ==
    IF x < 10 THEN <<Digits[x + 1]>>
    ELSE NatToStr(x \div 10) \o <<Digits[(x % 10) + 1]>>

\* str(x) of a Python int
IntToStr(x) == IF x < 0 THEN <<"-">> \o NatToStr(0 - x) ELSE NatToStr(x)

\* the date text a timestamp yyyymmdd prints as: "yyyy-mm-dd"
DateToStr(x) ==
    LET y == x \div 10000
        m == (x \div 100) % 100
        d == x % 100
        two(k) == IF k < 10 THEN <<"0">> \o NatToStr(k) ELSE NatToStr(k)
    IN  NatToStr(y) \o <<"-">> \o two(m) \o <<"-">> \o two(d)

\* Series.astype(str) on one element: NaN becomes the text "nan"
astype_str(c) ==
    CASE c.t = "str" -> c.s
      [] c.t = "num" -> IntToStr(c.n)
      [] c.t = "date" -> DateToStr(c.n)
      [] OTHER -> <<"n", "a", "n">>

RECURSIVE lstrip(_)
lstrip(s) == IF s # <<>> /\ Head(s) = " " THEN lstrip(Tail(s)) ELSE s

RECURSIVE rstrip(_)
rstrip(s) ==
    IF s # <<>> /\ s[Len(s)] = " " THEN rstrip(SubSeq(s, 1, Len(s) - 1)) ELSE s

\* str.strip()
strip(s) == lstrip(rstrip(s))

IsDigits(s) == s # <<>> /\ \A i \in 1..Len(s) : s[i] \in DigitSet

RECURSIVE DigitsVal(_)
DigitsVal(s) ==
    IF s = <<>> THEN 0
    ELSE 10 * DigitsVal(SubSeq(s, 1, Len(s) - 1)) + DigitVal(s[Len(s)])

\* pd.to_numeric(errors="coerce") on one element: surrounding blanks are
\* ignored, an optional sign and digits parse, anything else is NaN
to_numeric(c) ==
    CASE c.t = "num" -> c
      [] c.t = "str" ->
            LET b == strip(c.s) IN
            IF IsDigits(b) THEN Num(DigitsVal(b))
            ELSE IF b # <<>> /\ Head(b) = "-" /\ IsDigits(Tail(b))
                 THEN Num(0 - DigitsVal(Tail(b)))
                 ELSE NaN
      [] OTHER -> NaN

(* ---------------------------- datasets --------------------------------- *)
NoDf == [cols |-> {}, rows |-> <<>>]

\* df[mask]: the rows at the positions in mask, in their order
SelectRows(rows, mask) ==
    LET F[i \in 0..Len(rows)] ==
            IF i = 0 THEN <<>>
            ELSE IF i \in mask THEN Append(F[i - 1], rows[i]) ELSE F[i - 1]
    IN  F[Len(rows)]

\* the cells of the columns cs
Cells(d, cs) == {d.rows[i].v[c] : i \in 1..Len(d.rows), c \in cs \cap d.cols}

\* df[c] = f(df[c]) for the columns in cs; f maps each cell of them
MapCols(d, cs, f) ==
    [d EXCEPT !.rows =
        [i \in 1..Len(d.rows) |->
            [idx |-> d.rows[i].idx,
             v |-> [c \in d.cols |->
                      IF c \in cs THEN f[d.rows[i].v[c]] ELSE d.rows[i].v[c]]]]]

\* df[c] = col : adds or overwrites column c with one cell per row
SetCol(d, c, col) ==
    [cols |-> d.cols \cup {c},
     rows |-> [i \in 1..Len(d.rows) |->
                 [idx |-> d.rows[i].idx,
                  v |-> [k \in d.cols \cup {c} |->
                           IF k = c THEN col[i] ELSE d.rows[i].v[k]]]]]

\* df.drop_duplicates(): a row whose values equal an earlier row's is removed
drop_duplicates(d) ==
    LET F[i \in 0..Len(d.rows)] ==
            IF i = 0 THEN <<>>
            ELSE IF \E j \in 1..(i - 1) : d.rows[j].v = d.rows[i].v
                 THEN F[i - 1]
                 ELSE Append(F[i - 1], d.rows[i])
    IN  [d EXCEPT !.rows = F[Len(d.rows)]]

\* df.select_dtypes(include=["object"]).columns: a column holding text
select_dtypes_object(d) ==
    {c \in d.cols : \E i \in 1..Len(d.rows) : d.rows[i].v[c].t = "str"}

(* ---------------------------- clean_data ------------------------------- *)
\* One numeric column c of [COL_QTY, COL_PRICE, COL_SALES], when present
CoerceNumeric(d, c) ==
    IF c \in d.cols
    THEN MapCols(d, {c}, [x \in Cells(d, {c}) |-> to_numeric(x)])
    ELSE d

\* element of df[COL_QTY] * df[COL_PRICE]: a missing operand gives missing
Times(a, b) == IF isna(a) \/ isna(b) THEN NaN ELSE Num(a.n * b.n)

\* for c in object columns: df[c] = df[c].astype(str).str.strip()
TrimStrings(d) ==
    MapCols(d, select_dtypes_object(d),
            [x \in Cells(d, select_dtypes_object(d)) |-> Str(strip(astype_str(x)))])

DeriveSales(d) ==
    IF COL_SALES \notin d.cols /\ {COL_QTY, COL_PRICE} \subseteq d.cols
    THEN SetCol(d, COL_SALES,
                [i \in 1..Len(d.rows) |->
                    Times(d.rows[i].v[COL_QTY], d.rows[i].v[COL_PRICE])])
    ELSE d

\* df.dropna(subset=[c]); the caller has checked c \in d.cols
dropna(d, c) ==
    [d EXCEPT !.rows =
        SelectRows(d.rows, {i \in 1..Len(d.rows) : ~isna(d.rows[i].v[c])})]

\* df[df[COL_QTY].notna() & (df[COL_QTY] > 0)]
PositiveQty(d) ==
    [d EXCEPT !.rows =
        SelectRows(d.rows,
                   {i \in 1..Len(d.rows) :
                       ~isna(d.rows[i].v[COL_QTY]) /\ d.rows[i].v[COL_QTY].n > 0})]

\* clean_data(df): [err, df]; dropna on an absent column raises KeyError
clean_data(d) ==
    LET d1 == drop_duplicates(d)
        d2 == TrimStrings(d1)
        d3 == CoerceNumeric(CoerceNumeric(CoerceNumeric(d2, COL_QTY), COL_PRICE),
                            COL_SALES)
        d4 == DeriveSales(d3)
    IN  IF COL_PRODUCT \notin d4.cols
        THEN [err |-> "KeyError", df |-> NoDf]
        ELSE LET d5 == dropna(d4, COL_PRODUCT) IN
             [err |-> "none",
              df |-> IF COL_QTY \in d5.cols THEN PositiveQty(d5) ELSE d5]

(* ---------------------------- aggregation ------------------------------ *)
\* raise ValueError when a required column is absent
ensure_columns(d, required) ==
    IF required \subseteq d.cols THEN "none" ELSE "ValueError"

\* the characters product codes are written in, in code-point order
Alphabet ==
    <<" ", "-", "/", "0", "1", "2", "3", "4", "5", "6", "7", "8", "9",
      "A", "B", "C", "D", "a", "n", "x">>

CharRank(ch) == CHOOSE i \in 1..Len(Alphabet) : Alphabet[i] = ch

\* text order: character by character
RECURSIVE SeqLess(_, _)
SeqLess(a, b) ==
    IF b = <<>> THEN FALSE
    ELSE IF a = <<>> THEN TRUE
    ELSE IF Head(a) # Head(b) THEN CharRank(Head(a)) < CharRank(Head(b))
    ELSE SeqLess(Tail(a), Tail(b))

\* the order groupby sorts its keys in: numbers by value, text by characters
KeyLess(a, b) == IF a.t = "str" /\ b.t = "str" THEN SeqLess(a.s, b.s) ELSE a.n < b.n

RECURSIVE SumSeq(_)
SumSeq(s) == IF s = <<>> THEN 0 ELSE Head(s) + SumSeq(Tail(s))

\* Series.sum(): missing values are skipped
ColSum(rows, c) ==
    SumSeq([i \in 1..Len(rows) |-> IF isna(rows[i].v[c]) THEN 0 ELSE rows[i].v[c].n])

\* mutant: the group filter is lost, every product gets the column total
GroupSum_NoFilter(d, c, k) == ColSum(d.rows, c)

\* the sum of column c within the group of key k
GroupSum(d, c, k) ==
    ColSum(SelectRows(d.rows, {i \in 1..Len(d.rows) : d.rows[i].v[COL_PRODUCT] = k}), c)

\* the group keys: the distinct product codes, missing ones dropped
GroupKeys(d) ==
    {d.rows[i].v[COL_PRODUCT] : i \in 1..Len(d.rows)} \ {NaN}

RECURSIVE SortKeys(_)
\* the keys in ascending order (groupby sorts its groups)
SortKeys(K) ==
    IF K = {} THEN <<>>
    ELSE LET m == CHOOSE k \in K : \A o \in K \ {k} : KeyLess(k, o)
         IN  <<m>> \o SortKeys(K \ {m})

\* df.groupby(COL_PRODUCT)[c].sum(): one entry per product, in key order
groupby_sum(d, c) ==
    LET ks == SortKeys(GroupKeys(d))
    IN  [i \in 1..Len(ks) |-> [key |-> ks[i], val |-> GroupSum(d, c, ks[i])]]

Permutations1(k) == {f \in [1..k -> 1..k] : \A i, j \in 1..k : i # j => f[i] # f[j]}

\* mutant: the series is left in group order
sort_values_desc_Unsorted(s) == {s}

\* Series.sort_values(ascending=False): the default sort is quicksort, which
\* is not stable, so entries of equal value come out in any order
sort_values_desc(s) ==
    {[i \in 1..Len(s) |-> s[f[i]]] :
        f \in {g \in Permutations1(Len(s)) :
                 \A i \in 1..(Len(s) - 1) : s[g[i]].val >= s[g[i + 1]].val}}

\* Series.head(n); n >= 0
head(s, k) == SubSeq(s, 1, IF k < Len(s) THEN k ELSE Len(s))

\* mutant: ascending=True
TopBy_Ascending(d, c, k) ==
    {head([i \in 1..Len(s) |-> s[Len(s) + 1 - i]], k) :
        s \in sort_values_desc(groupby_sum(d, c))}

\* one metric of top_products: groupby, sum, sort descending, head(n)
TopBy(d, c, k) == {head(s, k) : s \in sort_values_desc(groupby_sum(d, c))}

\* top_products(df, n): the possible results [err, tops]
top_products(d, k) ==
    IF ensure_columns(d, {COL_PRODUCT}) # "none"
    THEN {[err |-> "ValueError", tops |-> [qty |-> <<>>, sales |-> <<>>, has |-> {}]]}
    ELSE {[err |-> "none",
           tops |-> [qty |-> q, sales |-> s,
                     has |-> {COL_QTY, COL_SALES} \cap d.cols]] :
            q \in IF COL_QTY \in d.cols THEN TopBy(d, COL_QTY, k) ELSE {<<>>},
            s \in IF COL_SALES \in d.cols THEN TopBy(d, COL_SALES, k) ELSE {<<>>}}

(* ---------------------------- ABC -------------------------------------- *)
\* A float is [k, p, q]: the finite value p/q (q > 0), or k = "nan", "pinf",
\* "ninf" for NaN and the two infinities
Fin(p, q) == [k |-> "fin", p |-> p, q |-> q]

FNaN == [k |-> "nan", p |-> 0, q |-> 1]

PInf == [k |-> "pinf", p |-> 0, q |-> 1]

NInf == [k |-> "ninf", p |-> 0, q |-> 1]

\* mutant: a zero total is guarded and gives 0
PercentOf_ZeroGuard(x, y) ==
    IF y > 0 THEN Fin(x * 100, y)
    ELSE IF y < 0 THEN Fin(0 - (x * 100), 0 - y)
    ELSE Fin(0, 1)

\* x / y * 100 on numbers: division by zero gives an infinity or NaN, no error
PercentOf(x, y) ==
    IF y > 0 THEN Fin(x * 100, y)
    ELSE IF y < 0 THEN Fin(0 - (x * 100), 0 - y)
    ELSE IF x > 0 THEN PInf
    ELSE IF x < 0 THEN NInf
    ELSE FNaN

\* a + b on floats
AddF(a, b) ==
    CASE a.k = "nan" \/ b.k = "nan" -> FNaN
      [] a.k = "fin" /\ b.k = "fin" ->
            IF a.q = b.q THEN Fin(a.p + b.p, a.q) ELSE Fin(a.p * b.q + b.p * a.q, a.q * b.q)
      [] a.k = "fin" -> b
      [] b.k = "fin" -> a
      [] a.k = b.k -> a
      [] OTHER -> FNaN

\* a <= b on floats; every comparison with NaN is false
LeqF(a, b) ==
    CASE a.k = "nan" \/ b.k = "nan" -> FALSE
      [] a.k = "ninf" \/ b.k = "pinf" -> TRUE
      [] a.k = "pinf" \/ b.k = "ninf" -> FALSE
      [] OTHER -> a.p * b.q <= b.p * a.q

\* mutant: the running sum is lost
cumsum_Identity(s) == s

\* Series.cumsum(): a NaN entry stays NaN and adds nothing to the running sum
cumsum(s) ==
    LET Acc[i \in 0..Len(s)] ==
            IF i = 0 THEN Fin(0, 1)
            ELSE IF s[i].k = "nan" THEN Acc[i - 1] ELSE AddF(Acc[i - 1], s[i])
    IN  [i \in 1..Len(s) |-> IF s[i].k = "nan" THEN FNaN ELSE Acc[i]]

clasificar_abc(pct_acum) ==
    IF LeqF(pct_acum, Fin(80, 1)) THEN "A"
    ELSE IF LeqF(pct_acum, Fin(95, 1)) THEN "B"
    ELSE "C"

\* the ABC table built from the sorted per-product sales
AbcTable(v) ==
    LET total_ventas == SumSeq([i \in 1..Len(v) |-> v[i].val])
        pct == [i \in 1..Len(v) |-> PercentOf(v[i].val, total_ventas)]
        acum == cumsum(pct)
    IN  [i \in 1..Len(v) |->
            [key |-> v[i].key, sales |-> v[i].val, pct |-> pct[i],
             acum |-> acum[i], cls |-> clasificar_abc(acum[i])]]

\* analisis_abc(df): the possible results [err, abc]
analisis_abc(d) ==
    IF ensure_columns(d, {COL_PRODUCT, COL_SALES}) # "none"
    THEN {[err |-> "ValueError", abc |-> <<>>]}
    ELSE {[err |-> "none", abc |-> AbcTable(v)] :
            v \in sort_values_desc(groupby_sum(d, COL_SALES))}

(* ---------------------------- inputs ----------------------------------- *)
\* every sequence over S of length at most k
SeqUpTo(S, k) == UNION {[1..m -> S] : m \in 0..k}

\* the dataset read from rows of values: a RangeIndex 0, 1, ... labels them
Frame(cs, vs) ==
    [cols |-> cs, rows |-> [i \in 1..Len(vs) |-> [idx |-> i - 1, v |-> vs[i]]]]

\* every dataset with columns cs, cell domains dom[c] and at most k rows
Datasets(cs, dom, k) ==
    {Frame(cs, vs) :
        vs \in SeqUpTo({r \in [cs -> UNION {dom[c] : c \in cs}] :
                            \A c \in cs : r[c] \in dom[c]}, k)}

NoTops == [qty |-> <<>>, sales |-> <<>>, has |-> {}]

\* the exception that ended the run: its type, the function that raised it
\* and, for an absent column, the column
NoErr == [type |-> "none", at |-> "", missing |-> ""]

Raised(type, at, missing) == [type |-> type, at |-> at, missing |-> missing]

Idle ==
    /\ fileExists = TRUE /\ df2 = NoDf /\ saved = NoDf /\ n = 0
    /\ tops = NoTops /\ abc = <<>> /\ artifacts = {} /\ logs = {}
    /\ err = NoErr

(* ---------------------------- cleaner ---------------------------------- *)
CleanCols == {COL_QTY, COL_PRICE, COL_SALES}

CleanDom ==
    [c \in CleanCols \cup {COL_PRODUCT} |->
        CASE c = COL_PRODUCT -> {Str(<<"A">>), Str(<<" ", "A">>), Str(<<"B">>), NaN}
          [] c = COL_QTY -> {Num(2), Num(0 - 1), NaN, Str(<<"2", " ">>), Str(<<"x">>)}
          [] c = COL_PRICE -> {Num(3), NaN}
          [] OTHER -> {Num(6), Num(0 - 4)}]

InitClean ==
    /\ pc = "raw"
    /\ \E cs \in SUBSET (CleanCols \cup {COL_PRODUCT}) :
           raw \in Datasets(cs, CleanDom, MaxRows)
    /\ df = NoDf
    /\ Idle

\* df = clean_data(df)
CleanOnce ==
    /\ pc = "raw"
    /\ LET r == clean_data(raw) IN
       /\ err' = IF r.err = "none" THEN NoErr
                 ELSE Raised(r.err, "clean_data", COL_PRODUCT)
       /\ df' = r.df
       /\ pc' = IF r.err = "none" THEN "cleaned" ELSE "raised"
    /\ UNCHANGED <<fileExists, raw, df2, saved, n, tops, abc, artifacts, logs>>

\* clean_data applied to its own result
CleanAgain ==
    /\ pc = "cleaned"
    /\ LET r == clean_data(df) IN
       /\ err' = IF r.err = "none" THEN NoErr
                 ELSE Raised(r.err, "clean_data", COL_PRODUCT)
       /\ df2' = r.df
       /\ pc' = IF r.err = "none" THEN "recleaned" ELSE "raised"
    /\ UNCHANGED <<fileExists, raw, df, saved, n, tops, abc, artifacts, logs>>

NextClean == CleanOnce \/ CleanAgain

SpecClean == InitClean /\ [][NextClean]_vars

(* ---------------------------- aggregator ------------------------------- *)
Products == {Str(<<"A">>), Str(<<"B">>), Str(<<"C">>)}

TopDom ==
    [c \in {COL_PRODUCT, COL_QTY, COL_SALES} |->
        CASE c = COL_PRODUCT -> Products
          [] c = COL_QTY -> {Num(1), Num(2)}
          [] OTHER -> {Num(0 - 1), Num(4), NaN}]

AbcDom ==
    [c \in {COL_PRODUCT, COL_SALES} |->
        CASE c = COL_PRODUCT -> Products
          [] OTHER -> {Num(0 - 9), Num(0 - 4), Num(0 - 1), Num(1), Num(4), Num(9), NaN}]

\* the datasets clean_data can return: product present, quantity > 0
InitTop ==
    /\ pc = "clean"
    /\ raw = NoDf
    /\ \E cs \in SUBSET {COL_QTY, COL_SALES} :
           df \in Datasets(cs \cup {COL_PRODUCT}, TopDom, MaxAggRows)
    /\ Idle

InitAbc ==
    /\ pc = "clean"
    /\ raw = NoDf
    /\ \E cs \in SUBSET {COL_SALES} :
           df \in Datasets(cs \cup {COL_PRODUCT}, AbcDom, MaxAggRows)
    /\ Idle

\* tops = top_products(df, n)
TopProducts ==
    /\ pc = "clean"
    /\ \E k \in 0..MaxN : \E r \in top_products(df, k) :
           /\ n' = k
           /\ tops' = r.tops
           /\ err' = IF r.err = "none" THEN NoErr
                     ELSE Raised(r.err, "ensure_columns", COL_PRODUCT)
    /\ pc' = "top"
    /\ UNCHANGED <<fileExists, raw, df, df2, saved, abc, artifacts, logs>>

\* analisis_abc(df)
AnalisisAbc ==
    /\ pc = "clean"
    /\ \E r \in analisis_abc(df) :
           /\ abc' = r.abc
           /\ err' = IF r.err = "none" THEN NoErr
                     ELSE Raised(r.err, "ensure_columns",
                                 IF COL_PRODUCT \in df.cols THEN COL_SALES
                                 ELSE COL_PRODUCT)
    /\ pc' = "abc"
    /\ UNCHANGED <<fileExists, raw, df, df2, saved, n, tops, artifacts, logs>>

SpecTop == InitTop /\ [][TopProducts]_vars

SpecAbc == InitAbc /\ [][AnalisisAbc]_vars

(* ---------------------------- aggregator properties -------------------- *)
\* the position of the first row of product k in the dataset
FirstSeen(d, k) == CHOOSE i \in 1..Len(d.rows) :
    /\ d.rows[i].v[COL_PRODUCT] = k
    /\ \A j \in 1..(i - 1) : d.rows[j].v[COL_PRODUCT] # k

Descending(s) == \A i \in 1..(Len(s) - 1) : s[i].val >= s[i + 1].val

TiesByFirstSeen(s) ==
    \A i, j \in 1..Len(s) :
        (i < j /\ s[i].val = s[j].val) =>
            FirstSeen(df, s[i].key) < FirstSeen(df, s[j].key)

TopDone == pc = "top" /\ err = NoErr

AbcDone == pc = "abc" /\ err = NoErr

\* the sort left equal sums in the order groupby produced them, which is
\* what a stable sort returns
TiesInGroupOrder(s) ==
    \A i, j \in 1..Len(s) :
        (i < j /\ s[i].val = s[j].val) => KeyLess(s[i].key, s[j].key)

Classes(tab) == {tab[i].cls : i \in 1..Len(tab)}

\* C6: in the ABC table no row classified A comes after a row classified B
\* or C, and no row classified B comes after a row classified C.
C6_AbcCategoryOrder ==
    AbcDone =>
        \A i, j \in 1..Len(abc) :
            i < j =>
                /\ ~(abc[j].cls = "A" /\ abc[i].cls \in {"B", "C"})
                /\ ~(abc[j].cls = "B" /\ abc[i].cls = "C")

C6_Witness ==
    /\ AbcDone
    /\ \E i \in 1..Len(abc) : abc[i].sales < 0
    /\ {"A", "C"} \subseteq Classes(abc)

C6_WitnessAllClasses == AbcDone /\ Classes(abc) = {"A", "B", "C"}

AcumNonDecreasing ==
    \A i \in 1..(Len(abc) - 1) : LeqF(abc[i].acum, abc[i + 1].acum)

AbcTotal == SumSeq([i \in 1..Len(abc) |-> abc[i].sales])

\* C7 as stated: the cumulative percent never decreases from a row of the
\* ABC table to the next.  Stated on the tables whose grand total is
\* positive, where every cumulative percent is a finite number.
C7_CumulativeNonDecreasing == (AbcDone /\ AbcTotal > 0) => AcumNonDecreasing

\* C7 amended: the cumulative percent never decreases from a row to the next
\* when no product has a negative sales sum and the grand total is positive.
C7_NonDecreasingWhenNonNegative ==
    (AbcDone /\ AbcTotal > 0 /\ \A i \in 1..Len(abc) : abc[i].sales >= 0)
        => AcumNonDecreasing

C7_Witness ==
    /\ AbcDone /\ Len(abc) = 3
    /\ \A i \in 1..Len(abc) : abc[i].sales > 0
    /\ ~LeqF(abc[2].acum, abc[1].acum)

\* the sales total of the rows of product k in the cleaned dataset
ProductSales(k) ==
    SumSeq([i \in 1..Len(df.rows) |->
              IF df.rows[i].v[COL_PRODUCT] = k /\ ~isna(df.rows[i].v[COL_SALES])
              THEN df.rows[i].v[COL_SALES].n ELSE 0])

TopSalesSum == SumSeq([i \in 1..Len(tops.sales) |-> tops.sales[i].val])

TopSalesDone == TopDone /\ COL_SALES \in tops.has

\* C8 as stated: the sum of the Top-N sales values is at most the total of
\* the sales column of the cleaned dataset.
C8_TopSumAtMostTotal == TopSalesDone => TopSalesSum <= ColSum(df.rows, COL_SALES)

\* C8 amended: the same, for datasets where no product has a negative sales
\* sum.
C8_TopSumAtMostTotalNonNegative ==
    (TopSalesDone /\ \A i \in 1..Len(df.rows) :
                         ProductSales(df.rows[i].v[COL_PRODUCT]) >= 0)
        => TopSalesSum <= ColSum(df.rows, COL_SALES)

C8_Witness ==
    /\ TopSalesDone /\ n = 1 /\ Len(tops.sales) = 1 /\ tops.sales[1].val = 4
    /\ \A i \in 1..Len(df.rows) : ProductSales(df.rows[i].v[COL_PRODUCT]) >= 0
    /\ \E i \in 1..Len(df.rows) : df.rows[i].v[COL_SALES] = Num(0 - 1)
    /\ 0 < TopSalesSum /\ TopSalesSum < ColSum(df.rows, COL_SALES)

\* C9 as stated: with a grand total of zero analisis_abc does not fail, every
\* percent and every cumulative percent is zero, and every row is in class C.
C9_ZeroTotalAllZero ==
    (pc = "abc" /\ COL_SALES \in df.cols /\ AbcTotal = 0) =>
        /\ err = NoErr
        /\ \A i \in 1..Len(abc) :
              /\ abc[i].pct.k = "fin" /\ abc[i].pct.p = 0
              /\ abc[i].acum.k = "fin" /\ abc[i].acum.p = 0
              /\ abc[i].cls = "C"

\* C9 amended: with a grand total of zero analisis_abc does not fail, no
\* percent and no cumulative percent is a finite number (each is NaN or an
\* infinity), and every row is in class C.
C9_ZeroTotalAllC ==
    (pc = "abc" /\ COL_SALES \in df.cols /\ AbcTotal = 0) =>
        /\ err = NoErr
        /\ \A i \in 1..Len(abc) :
              /\ abc[i].pct.k # "fin"
              /\ abc[i].acum.k # "fin"
              /\ abc[i].cls = "C"

C9_Witness ==
    /\ AbcDone /\ AbcTotal = 0 /\ Len(abc) >= 2
    /\ \E i \in 1..Len(abc) : abc[i].sales > 0

\* the row of the input that carries index label i
RawRow(i) == raw.rows[i + 1].v

\* C1: every row clean_data returns has a product code that is not missing,
\* and a quantity that is not missing and > 0 when the column exists; a row
\* whose product code is missing in the input is not in the output.
C1_InvalidRowsDropped ==
    pc = "cleaned" =>
        \A i \in 1..Len(df.rows) :
            /\ ~isna(df.rows[i].v[COL_PRODUCT])
            /\ COL_QTY \in df.cols =>
                   ~isna(df.rows[i].v[COL_QTY]) /\ df.rows[i].v[COL_QTY].n > 0
            /\ ~isna(RawRow(df.rows[i].idx)[COL_PRODUCT])

\* C2: cleaning is idempotent: clean_data(clean_data(df)) = clean_data(df),
\* same rows, same order, same values.
C2_CleanIdempotent == pc = "recleaned" => df2 = df

(* ---------------------------- dates ------------------------------------ *)
NatText == <<"n", "a", "n">>

\* the timestamp yyyymmdd of a text DD/DD/DDDD, 0 when it is not a date:
\* the first field is the day with dayfirst, the month without
ParseDate(s, dayfirst) ==
    IF /\ Len(s) = 10 /\ s[3] = "/" /\ s[6] = "/"
       /\ IsDigits(SubSeq(s, 1, 2)) /\ IsDigits(SubSeq(s, 4, 5))
       /\ IsDigits(SubSeq(s, 7, 10))
    THEN LET a == DigitsVal(SubSeq(s, 1, 2))
             b == DigitsVal(SubSeq(s, 4, 5))
             y == DigitsVal(SubSeq(s, 7, 10))
             m == IF dayfirst THEN b ELSE a
             d == IF dayfirst THEN a ELSE b
         IN  IF m \in 1..12 /\ d \in 1..31 THEN y * 10000 + m * 100 + d ELSE 0
    ELSE 0

\* one element of pd.to_datetime: a timestamp stays, a missing value and the
\* text "nan" are NaT, a text is parsed; Unparsed marks a text that is no date
Unparsed == [t |-> "unparsed", n |-> 0, s |-> <<>>]

DateOf(c, dayfirst) ==
    CASE c.t = "date" -> c
      [] c.t = "str" /\ c.s # NatText ->
            IF ParseDate(c.s, dayfirst) # 0 THEN Date(ParseDate(c.s, dayfirst))
            ELSE Unparsed
      [] OTHER -> NaN

\* pd.to_datetime(x, errors="coerce") on one element
to_datetime_coerce(c) ==
    IF DateOf(c, FALSE) = Unparsed THEN NaN ELSE DateOf(c, FALSE)

\* Series.dt.month on one element
MonthOf(c) == IF c.t = "date" THEN Num((c.n \div 100) % 100) ELSE NaN

(* ---------------------------- analyze_top4_daily ----------------------- *)
\* top_sales is None or len(top_sales) < 4
Top4Missing(tp) == COL_SALES \notin tp.has \/ Len(tp.sales) < 4

\* df[COL_ORDERDATE] = pd.to_datetime(df[COL_ORDERDATE], errors="coerce"),
\* assigned into the caller's dataset
Top4DailyFrame(d) ==
    MapCols(d, {COL_ORDERDATE},
            [x \in Cells(d, {COL_ORDERDATE}) |-> to_datetime_coerce(x)])

Top4Artifacts ==
    {"ventas_diarias_top4.csv", "charts/ventas_diarias_top4_comparativo.png",
     "charts/ventas_diarias_<prod>.png"}

(* ---------------------------- graficos --------------------------------- *)
VintageCars == <<"V", "i", "n", "t", "a", "g", "e", " ", "C", "a", "r", "s">>

ClassicCars == <<"C", "l", "a", "s", "s", "i", "c", " ", "C", "a", "r", "s">>

TrucksAndBuses ==
    <<"T", "r", "u", "c", "k", "s", " ", "a", "n", "d", " ", "B", "u", "s", "e", "s">>

Motorcycles == <<"M", "o", "t", "o", "r", "c", "y", "c", "l", "e", "s">>

Ships == <<"S", "h", "i", "p", "s">>

\* lineas_interes of cantidad_unidades_por_mes, with the chart of each
MonthlyLines ==
    <<[line |-> VintageCars, file |-> "cantidad_unidades_por_mes_vintage_cars.png"],
      [line |-> ClassicCars, file |-> "cantidad_unidades_por_mes_classic_cars.png"],
      [line |-> TrucksAndBuses,
       file |-> "cantidad_unidades_por_mes_trucks_and_buses.png"],
      [line |-> Motorcycles, file |-> "cantidad_unidades_por_mes_motorcycles.png"]>>

\* lineas_interes of plot_cantidad_por_territorio and plot_boxplot_precio
TwoLines == {VintageCars, ClassicCars}

\* df[df['PRODUCTLINE'].isin(lines)]
InLines(d, lines) ==
    SelectRows(d.rows,
               {i \in 1..Len(d.rows) :
                   d.rows[i].v[COL_LINE].t = "str" /\ d.rows[i].v[COL_LINE].s \in lines})

\* cantidad_unidades_por_mes(df): [err, missing, df, charts].  The date and
\* month columns are assigned into the caller's dataset before the later
\* columns are read, so df is the dataset as the function leaves it.
cantidad_unidades_por_mes(d) ==
    IF COL_ORDERDATE \notin d.cols
    THEN [err |-> "KeyError", missing |-> COL_ORDERDATE, df |-> d, charts |-> {}]
    ELSE IF \E i \in 1..Len(d.rows) : DateOf(d.rows[i].v[COL_ORDERDATE], TRUE) = Unparsed
    THEN [err |-> "ValueError", missing |-> "", df |-> d, charts |-> {}]
    ELSE
    LET d1 == MapCols(d, {COL_ORDERDATE},
                      [x \in Cells(d, {COL_ORDERDATE}) |-> DateOf(x, TRUE)])
        d2 == SetCol(d1, COL_MONTH_ID,
                     [i \in 1..Len(d1.rows) |-> MonthOf(d1.rows[i].v[COL_ORDERDATE])])
    IN  IF COL_LINE \notin d2.cols
        THEN [err |-> "KeyError", missing |-> COL_LINE, df |-> d2, charts |-> {}]
        ELSE IF COL_QTY \notin d2.cols
        THEN [err |-> "KeyError", missing |-> COL_QTY, df |-> d2, charts |-> {}]
        ELSE
        LET lines == {MonthlyLines[i].line : i \in 1..Len(MonthlyLines)}
            \* rows that reach the groupby: line of interest, quantity and
            \* month not missing
            filtrado == InLines(d2, lines)
            grouped ==
                SelectRows(filtrado,
                           {i \in 1..Len(filtrado) :
                               /\ ~isna(to_numeric(filtrado[i].v[COL_QTY]))
                               /\ ~isna(filtrado[i].v[COL_MONTH_ID])})
            \* dt.month is a float column when a date is missing, and
            \* calendar.month_name[x] takes no float
            floatMonth == \E i \in 1..Len(d2.rows) : isna(d2.rows[i].v[COL_MONTH_ID])
        IN  IF grouped # <<>> /\ floatMonth
            THEN [err |-> "TypeError", missing |-> "", df |-> d2, charts |-> {}]
            ELSE [err |-> "none", missing |-> "", df |-> d2,
                  charts |-> {MonthlyLines[i].file : i \in
                                {j \in 1..Len(MonthlyLines) :
                                   \E k \in 1..Len(grouped) :
                                      grouped[k].v[COL_LINE].s = MonthlyLines[j].line}}]

\* plot_cantidad_por_territorio(df): [err, missing, charts]; an empty table
\* has no numeric data to plot
plot_cantidad_por_territorio(d) ==
    IF COL_LINE \notin d.cols
    THEN [err |-> "KeyError", missing |-> COL_LINE, charts |-> {}]
    ELSE IF COL_QTY \notin d.cols
    THEN [err |-> "KeyError", missing |-> COL_QTY, charts |-> {}]
    ELSE IF COL_TERRITORY \notin d.cols
    THEN [err |-> "KeyError", missing |-> COL_TERRITORY, charts |-> {}]
    ELSE IF \A i \in 1..Len(InLines(d, TwoLines)) :
                isna(InLines(d, TwoLines)[i].v[COL_TERRITORY])
    THEN [err |-> "TypeError", missing |-> "", charts |-> {}]
    ELSE [err |-> "none", missing |-> "", charts |-> {"<shown> cantidad por territorio"}]

\* plot_boxplot_precio(df): [err, missing, charts]
plot_boxplot_precio(d) ==
    IF COL_LINE \notin d.cols
    THEN [err |-> "KeyError", missing |-> COL_LINE, charts |-> {}]
    ELSE IF COL_PRICE \notin d.cols
    THEN [err |-> "KeyError", missing |-> COL_PRICE, charts |-> {}]
    ELSE [err |-> "none", missing |-> "", charts |-> {"<shown> boxplot precio"}]

(* ---------------------------- main ------------------------------------- *)
AllCols ==
    {COL_PRODUCT, COL_LINE, COL_QTY, COL_PRICE, COL_SALES, COL_ORDERDATE,
     COL_TERRITORY}

Row(p, l, q, pr, s, dt, tr) ==
    [c \in AllCols |->
        CASE c = COL_PRODUCT -> p
          [] c = COL_LINE -> l
          [] c = COL_QTY -> q
          [] c = COL_PRICE -> pr
          [] c = COL_SALES -> s
          [] c = COL_ORDERDATE -> dt
          [] OTHER -> tr]

D1 == <<"0", "2", "/", "0", "3", "/", "2", "0", "0", "3">>

D2 == <<"0", "4", "/", "0", "5", "/", "2", "0", "0", "3">>

\* the rows the input file is made of; a file has at least one column
RowPool ==
    <<Row(Str(<<"A">>), Str(ClassicCars), Num(2), Num(3), Num(6), Str(D1),
          Str(<<"E", "M", "E", "A">>)),
      Row(Str(<<"B">>), Str(VintageCars), Num(1), Num(5), Num(5), Str(D2),
          Str(<<"E", "M", "E", "A">>)),
      Row(Str(<<"C">>), Str(Motorcycles), Num(3), Num(1), Num(3), Str(D1),
          Str(<<"A", "P", "A", "C">>)),
      Row(Str(<<"D">>), Str(Ships), Num(1), Num(2), Num(2), Str(D1), NaN),
      Row(Str(<<"A">>), Str(ClassicCars), Num(1), Num(3), Num(3),
          Str(<<"b", "a", "d">>), Str(<<"E", "M", "E", "A">>)),
      Row(NaN, Str(TrucksAndBuses), NaN, Num(4), NaN, NaN,
          Str(<<"A", "P", "A", "C">>))>>

\* the pool rows numbered in S, in file order, cut to the columns cs
RECURSIVE Pick(_, _)
Pick(S, cs) ==
    IF S = {} THEN <<>>
    ELSE LET i == CHOOSE x \in S : \A y \in S : x <= y
         IN  <<[c \in cs |-> RowPool[i][c]]>> \o Pick(S \ {i}, cs)

InitRun ==
    /\ pc = "load_csv"
    /\ fileExists \in BOOLEAN
    /\ IF fileExists
       THEN \E cs \in (SUBSET AllCols) \ {{}} :
                \E S \in {X \in SUBSET (1..Len(RowPool)) : Cardinality(X) <= MaxRunRows} :
                    raw = Frame(cs, Pick(S, cs))
       ELSE raw = NoDf
    /\ df = NoDf
    /\ df2 = NoDf /\ saved = NoDf /\ n = 0
    /\ tops = NoTops /\ abc = <<>> /\ artifacts = {} /\ logs = {}
    /\ err = NoErr

\* df = load_csv(CSV_IN): a missing file ends the process
LoadCsv ==
    /\ pc = "load_csv"
    /\ IF fileExists
       THEN /\ df' = raw
            /\ logs' = logs \cup {"Archivo CSV leido correctamente"}
            /\ pc' = "export_raw_excel"
            /\ err' = err
       ELSE /\ pc' = "exit"
            /\ err' = Raised("SystemExit", "load_csv", "")
            /\ UNCHANGED <<df, logs>>
    /\ UNCHANGED <<fileExists, raw, df2, saved, n, tops, abc, artifacts>>

ExportRawExcel ==
    /\ pc = "export_raw_excel"
    /\ artifacts' = artifacts \cup {"sales_data_sample.xlsx"}
    /\ logs' = logs \cup {"Exportado Excel RAW"}
    /\ pc' = "report_nulls"
    /\ UNCHANGED <<fileExists, raw, df, df2, saved, n, tops, abc, err>>

ReportNulls ==
    /\ pc = "report_nulls"
    /\ artifacts' = artifacts \cup {"nulls_por_columna.csv"}
    /\ logs' = logs \cup {"Valores nulos por columna", "Guardado reporte de nulos"}
    /\ pc' = "clean_data"
    /\ UNCHANGED <<fileExists, raw, df, df2, saved, n, tops, abc, err>>

\* df = clean_data(df)
CleanData ==
    /\ pc = "clean_data"
    /\ LET r == clean_data(df) IN
       IF r.err = "none"
       THEN /\ df' = r.df
            /\ logs' = logs \cup {"Duplicados eliminados", "Filas eliminadas"}
            /\ pc' = "top_products"
            /\ err' = err
       ELSE /\ df' = df
            /\ logs' = logs \cup {"Duplicados eliminados"}
            /\ pc' = "raised"
            /\ err' = Raised(r.err, "clean_data", COL_PRODUCT)
    /\ UNCHANGED <<fileExists, raw, df2, saved, n, tops, abc, artifacts>>

\* tops = top_products(df, TOP_N)
RunTopProducts ==
    /\ pc = "top_products"
    /\ \E r \in top_products(df, TOP_N) :
        IF r.err = "none"
        THEN /\ tops' = r.tops
             /\ n' = TOP_N
             /\ logs' = logs \cup {"Top productos"}
             /\ pc' = "plot_top_products"
             /\ err' = err
        ELSE /\ pc' = "raised"
             /\ err' = Raised(r.err, "ensure_columns", COL_PRODUCT)
             /\ UNCHANGED <<tops, n, logs>>
    /\ UNCHANGED <<fileExists, raw, df, df2, saved, abc, artifacts>>

\* plot_top_products(tops.get("qty"), tops.get("sales"), TOP_N)
PlotTopProducts ==
    /\ pc = "plot_top_products"
    /\ artifacts' = artifacts
          \cup (IF COL_QTY \in tops.has /\ Len(tops.qty) > 0
                THEN {"charts/top_10_productos_unidades.png"} ELSE {})
          \cup (IF COL_SALES \in tops.has /\ Len(tops.sales) > 0
                THEN {"charts/top_10_productos_ventas.png"} ELSE {})
    /\ pc' = "save_clean_dataset"
    /\ UNCHANGED <<fileExists, raw, df, df2, saved, n, tops, abc, logs, err>>

\* save_clean_dataset(df)
SaveCleanDataset ==
    /\ pc = "save_clean_dataset"
    /\ saved' = df
    /\ artifacts' = artifacts
          \cup {"sales_data_sample_clean.csv", "sales_data_sample_clean.xlsx"}
    /\ logs' = logs \cup {"Dataset limpio guardado"}
    /\ pc' = "analyze_top4_daily"
    /\ UNCHANGED <<fileExists, raw, df, df2, n, tops, abc, err>>

\* analyze_top4_daily(df, tops.get("sales"))
AnalyzeTop4Daily ==
    /\ pc = "analyze_top4_daily"
    /\ IF Top4Missing(tops)
       THEN UNCHANGED <<df, artifacts, logs>>
       ELSE IF COL_ORDERDATE \notin df.cols
       THEN /\ logs' = logs \cup {"ORDERDATE no existe; se omite analisis diario de top 4."}
            /\ UNCHANGED <<df, artifacts>>
       ELSE /\ df' = Top4DailyFrame(df)
            /\ artifacts' = artifacts \cup Top4Artifacts
            /\ logs' = logs \cup {"Guardado CSV ventas_diarias_top4.csv"}
    /\ pc' = "analisis_abc"
    /\ UNCHANGED <<fileExists, raw, df2, saved, n, tops, abc, err>>

\* analisis_abc(df)
RunAnalisisAbc ==
    /\ pc = "analisis_abc"
    /\ \E r \in analisis_abc(df) :
        IF r.err = "none"
        THEN /\ abc' = r.abc
             /\ artifacts' = artifacts
                   \cup {"analisis_abc_productos.csv", "charts/analisis_abc_productos.png"}
             /\ logs' = logs \cup {"Analisis ABC guardado"}
             /\ pc' = "log_completado"
             /\ err' = err
        ELSE /\ pc' = "raised"
             /\ err' = Raised(r.err, "ensure_columns", COL_SALES)
             /\ UNCHANGED <<abc, artifacts, logs>>
    /\ UNCHANGED <<fileExists, raw, df, df2, saved, n, tops>>

LogCompletado ==
    /\ pc = "log_completado"
    /\ logs' = logs \cup {"Analisis completado"}
    /\ pc' = "cantidad_unidades_por_mes"
    /\ UNCHANGED <<fileExists, raw, df, df2, saved, n, tops, abc, artifacts, err>>

\* graficos.cantidad_unidades_por_mes(df)
CantidadUnidadesPorMes ==
    /\ pc = "cantidad_unidades_por_mes"
    /\ LET r == cantidad_unidades_por_mes(df) IN
       /\ df' = r.df
       /\ artifacts' = artifacts \cup r.charts
       /\ pc' = IF r.err = "none" THEN "plot_cantidad_por_territorio" ELSE "raised"
       /\ err' = IF r.err = "none" THEN err
                 ELSE Raised(r.err, "cantidad_unidades_por_mes", r.missing)
    /\ UNCHANGED <<fileExists, raw, df2, saved, n, tops, abc, logs>>

\* graficos.plot_cantidad_por_territorio(df)
PlotCantidadPorTerritorio ==
    /\ pc = "plot_cantidad_por_territorio"
    /\ LET r == plot_cantidad_por_territorio(df) IN
       /\ artifacts' = artifacts \cup r.charts
       /\ pc' = IF r.err = "none" THEN "plot_boxplot_precio" ELSE "raised"
       /\ err' = IF r.err = "none" THEN err
                 ELSE Raised(r.err, "plot_cantidad_por_territorio", r.missing)
    /\ UNCHANGED <<fileExists, raw, df, df2, saved, n, tops, abc, logs>>

\* graficos.plot_boxplot_precio(df)
PlotBoxplotPrecio ==
    /\ pc = "plot_boxplot_precio"
    /\ LET r == plot_boxplot_precio(df) IN
       /\ artifacts' = artifacts \cup r.charts
       /\ pc' = IF r.err = "none" THEN "done" ELSE "raised"
       /\ err' = IF r.err = "none" THEN err
                 ELSE Raised(r.err, "plot_boxplot_precio", r.missing)
    /\ UNCHANGED <<fileExists, raw, df, df2, saved, n, tops, abc, logs>>

Next ==
    \/ LoadCsv
    \/ ExportRawExcel
    \/ ReportNulls
    \/ CleanData
    \/ RunTopProducts
    \/ PlotTopProducts
    \/ SaveCleanDataset
    \/ AnalyzeTop4Daily
    \/ RunAnalisisAbc
    \/ LogCompletado
    \/ CantidadUnidadesPorMes
    \/ PlotCantidadPorTerritorio
    \/ PlotBoxplotPrecio

Spec == InitRun /\ [][Next]_vars

(* ---------------------------- run properties --------------------------- *)
\* the aggregate tables and charts of a run; the raw copy, the null report
\* and the cleaned dataset are not aggregates
AggregateArtifacts ==
    Top4Artifacts
    \cup {MonthlyLines[i].file : i \in 1..Len(MonthlyLines)}
    \cup {"charts/top_10_productos_unidades.png", "charts/top_10_productos_ventas.png",
          "analisis_abc_productos.csv", "charts/analisis_abc_productos.png",
          "<shown> cantidad por territorio", "<shown> boxplot precio"}

NoAggregateYet == artifacts \cap AggregateArtifacts = {} /\ tops = NoTops /\ abc = <<>>

Ended == pc \in {"raised", "done"}

\* C3: a dataset without the product code column is aborted by the
\* required-column check, with the error ensure_columns raises, before any
\* aggregate table or chart is produced; no other absent column aborts the run.
C3_ProductCodeCheckAborts ==
    /\ (fileExists /\ COL_PRODUCT \notin raw.cols /\ Ended) =>
          /\ pc = "raised"
          /\ err.type = "ValueError" /\ err.at = "ensure_columns"
          /\ NoAggregateYet
    /\ (pc = "raised" /\ err.missing # "") => err.missing = COL_PRODUCT

OptionalStages ==
    {"analyze_top4_daily", "cantidad_unidades_por_mes",
     "plot_cantidad_por_territorio", "plot_boxplot_precio"}

\* the run is past its optional analyses, or one of them ended it
OptionalEnded == pc = "done" \/ (pc = "raised" /\ err.at \in OptionalStages)

\* C4: an optional analysis whose precondition is not met (order date,
\* product line or territory column absent, fewer than 4 entries in
\* top_sales) produces no table or chart, logs an explanation, raises no
\* error, and the run goes on.
C4_OptionalStagesSkip ==
    OptionalEnded =>
        /\ ~(pc = "raised"
             /\ err.missing \in {COL_ORDERDATE, COL_LINE, COL_TERRITORY})
        /\ (Top4Missing(tops) \/ COL_ORDERDATE \notin saved.cols) =>
              /\ artifacts \cap Top4Artifacts = {}
              /\ "ORDERDATE no existe; se omite analisis diario de top 4." \in logs
        /\ COL_ORDERDATE \notin saved.cols =>
              artifacts \cap {MonthlyLines[i].file : i \in 1..Len(MonthlyLines)} = {}

AfterClean ==
    \/ pc \in {"top_products", "plot_top_products", "save_clean_dataset",
               "analyze_top4_daily", "analisis_abc", "log_completado",
               "cantidad_unidades_por_mes", "plot_cantidad_por_territorio",
               "plot_boxplot_precio", "done"}
    \/ pc = "raised" /\ err.at # "clean_data"

AfterSave ==
    AfterClean /\ pc \notin {"top_products", "plot_top_products", "save_clean_dataset"}
    /\ ~(pc = "raised" /\ err.at = "ensure_columns" /\ err.missing = COL_PRODUCT)

\* C10: no stage after clean_data changes the dataset the orchestrator holds:
\* it keeps the columns and values clean_data returned, and is the dataset
\* that was persisted.
C10_StagesDoNotMutate ==
    /\ AfterClean => df = clean_data(raw).df
    /\ AfterSave => df = saved

====
